---------------------------- MODULE Spec2Model ----------------------------
(***************************************************************************)
(* A model of the census enrichment pipeline (src/main.py) and of the      *)
(* range-capable file server (src/server.py).                               *)
(*                                                                         *)
(* Text is a sequence of characters, each character a one-element token.    *)
(* The ASCII characters stand for themselves; the non-ASCII characters of   *)
(* the registry's native names are named by their code point ("u4e13").     *)
(* A Python value that may be None, a str or an int is a record             *)
(* [kind, text, num].  Percentages are kept in thousandths (1.5 is 1500),   *)
(* rounded values in hundredths, centroid coordinates in millionths.        *)
(***************************************************************************)
EXTENDS Integers, Sequences, FiniteSets, TLC

VARIABLES
    kArgs, kOut,                      \* parse_yishuv_sta: the calls, their outcomes
    mIn, mOut,                        \* match_soviet_country: the input, the outcome
    req, resp, body, yielded, drained, \* server.py: one request and its body object
    pc, error,                        \* main: the stage it is at, the exception that ended it
    width, anyRow,                    \* the census table: its number of columns; a row was read
    country_data,                     \* load_census_data: composite key -> entry
    lastRow, replaced,                \* history: key -> the last row that produced it; keys overwritten
    geojson, matched,                 \* update_geojson: the document in memory, the match count
    top_areas,                        \* compute_top_areas: mode -> ranked records
    geoFile, topFile                  \* what the two destination files hold

keyVars    == <<kArgs, kOut>>
matchVars  == <<mIn, mOut>>
serverVars == <<req, resp, body, yielded, drained>>
pipeVars   == <<pc, error, width, anyRow, country_data, lastRow, replaced, geojson, matched,
                top_areas, geoFile, topFile>>
vars       == <<keyVars, matchVars, serverVars, pipeVars>>

----------------------------------------------------------------------------
(* Python values *)

NoneV  == [kind |-> "none", text |-> <<>>, num |-> 0]
Str(t) == [kind |-> "str", text |-> t, num |-> 0]
Num(n) == [kind |-> "int", text |-> <<>>, num |-> n]

Digits == <<"0", "1", "2", "3", "4", "5", "6", "7", "8", "9">>
DigitSet == {Digits[i] : i \in 1..10}
DigitVal(c) == (CHOOSE i \in 1..10 : Digits[i] = c) - 1

IsDigits(s) == \A i \in 1..Len(s) : s[i] \in DigitSet

RECURSIVE ToNat(_)
ToNat(s) ==
    IF s = <<>> THEN 0
    ELSE ToNat(SubSeq(s, 1, Len(s) - 1)) * 10 + DigitVal(s[Len(s)])

RECURSIVE DecStr(_)
\* str(n) for n >= 0
DecStr(n) ==
    IF n < 10 THEN <<Digits[n + 1]>>
    ELSE DecStr(n \div 10) \o <<Digits[(n % 10) + 1]>>

\* str(n), f"{n}"
IntStr(n) == IF n < 0 THEN <<"-">> \o DecStr(-n) ELSE DecStr(n)

RECURSIVE ZeroPad(_, _)
ZeroPad(s, n) == IF Len(s) >= n THEN s ELSE ZeroPad(<<"0">> \o s, n)

\* f"{n:03d}"
Format03d(n) ==
    IF n < 0 THEN <<"-">> \o ZeroPad(DecStr(-n), 2) ELSE ZeroPad(DecStr(n), 3)

\* f"{n:04d}": the sign counts in the width and the zeros follow it
Format04d(n) ==
    IF n < 0 THEN <<"-">> \o ZeroPad(DecStr(-n), 3) ELSE ZeroPad(DecStr(n), 4)

RECURSIVE LStrip(_)
LStrip(s) == IF s # <<>> /\ s[1] = " " THEN LStrip(Tail(s)) ELSE s

RECURSIVE RStrip(_)
RStrip(s) ==
    IF s # <<>> /\ s[Len(s)] = " " THEN RStrip(SubSeq(s, 1, Len(s) - 1)) ELSE s

\* str.strip()
Strip(s) == LStrip(RStrip(s))

\* needle in hay, for str
Contains(hay, needle) ==
    \E i \in 0..(Len(hay) - Len(needle)) : SubSeq(hay, i + 1, i + Len(needle)) = needle

Min(a, b) == IF a < b THEN a ELSE b
Max(a, b) == IF a > b THEN a ELSE b

\* bool(v)
Truthy(v) ==
    CASE v.kind = "none" -> FALSE
      [] v.kind = "str"  -> v.text # <<>>
      [] OTHER           -> v.num # 0

\* str(v)
PyStr(v) ==
    CASE v.kind = "str"  -> v.text
      [] v.kind = "none" -> <<"N", "o", "n", "e">>
      [] OTHER           -> IntStr(v.num)

----------------------------------------------------------------------------
(* float(x) and int(float(x)).  A float is [err, kind, neg, ip, frac]: a    *)
(* finite one is (-1)^neg * (ip + 0.frac).  The text grammar is Python's    *)
(* without exponents and underscores: blanks, a sign, then inf, nan,        *)
(* digits, digits.digits, digits. or .digits                                *)

FloatErr(e)  == [err |-> e, kind |-> "nan", neg |-> FALSE, ip |-> 0, frac |-> <<>>]
Fin(n, i, f) == [err |-> "", kind |-> "fin", neg |-> n, ip |-> i, frac |-> f]
Special(k, n) == [err |-> "", kind |-> k, neg |-> n, ip |-> 0, frac |-> <<>>]

DotAt(s) == IF \E i \in 1..Len(s) : s[i] = "."
            THEN CHOOSE i \in 1..Len(s) : s[i] = "." /\ \A j \in 1..(i - 1) : s[j] # "."
            ELSE 0

ParseUnsigned(s, neg) ==
    LET d  == DotAt(s)
        ip == IF d = 0 THEN s ELSE SubSeq(s, 1, d - 1)
        fr == IF d = 0 THEN <<>> ELSE SubSeq(s, d + 1, Len(s))
    IN  CASE s = <<"i", "n", "f">> -> Special("inf", neg)
          [] s = <<"n", "a", "n">> -> Special("nan", neg)
          [] IsDigits(ip) /\ IsDigits(fr) /\ Len(ip) + Len(fr) > 0 -> Fin(neg, ToNat(ip), fr)
          [] OTHER -> FloatErr("ValueError")

ParseFloatText(t) ==
    LET s == Strip(t)
    IN  IF s = <<>> THEN FloatErr("ValueError")
        ELSE IF s[1] = "-" THEN ParseUnsigned(Tail(s), TRUE)
        ELSE IF s[1] = "+" THEN ParseUnsigned(Tail(s), FALSE)
        ELSE ParseUnsigned(s, FALSE)

\* float(v)
PyFloat(v) ==
    CASE v.kind = "none" -> FloatErr("TypeError")
      [] v.kind = "int"  -> Fin(v.num < 0, IF v.num < 0 THEN -v.num ELSE v.num, <<>>)
      [] OTHER           -> ParseFloatText(v.text)

\* int(float(v)): [err, val]; int() truncates toward zero, refuses nan with
\* ValueError and an infinity with OverflowError
IntOfFloat(v) ==
    LET f == PyFloat(v)
    IN  CASE f.err # ""     -> [err |-> f.err, val |-> 0]
          [] f.kind = "nan" -> [err |-> "ValueError", val |-> 0]
          [] f.kind = "inf" -> [err |-> "OverflowError", val |-> 0]
          [] OTHER          -> [err |-> "", val |-> IF f.neg THEN -f.ip ELSE f.ip]

----------------------------------------------------------------------------
(* parse_yishuv_sta.  The outcome is [raised, key]: key is the returned     *)
(* value (NoneV for None), raised the exception that left the function.     *)

Returned(v) == [raised |-> "", key |-> v]
Raised(e)   == [raised |-> e, key |-> NoneV]

\* contextlib.suppress(ValueError, TypeError)
Suppressed == {"ValueError", "TypeError"}

parse_yishuv_sta(semel, stat_area) ==
    IF semel.kind = "none" \/ stat_area.kind = "none" THEN Returned(NoneV)
    ELSE LET semel_int == IntOfFloat(semel)
             stat_int  == IntOfFloat(stat_area)
         IN  CASE semel_int.err \in Suppressed -> Returned(NoneV)
               [] semel_int.err # ""           -> Raised(semel_int.err)
               [] stat_int.err \in Suppressed  -> Returned(NoneV)
               [] stat_int.err # ""            -> Raised(stat_int.err)
               [] OTHER -> Returned(Str(IntStr(semel_int.val) \o Format04d(stat_int.val)))


\* The calls of the key deriver that are checked: absent, integer, float text,
\* integer text, blank-padded text, unparseable text, inf and nan
KeyInputs ==
    { NoneV, Num(1), Num(12), Num(3), Num(45), Num(2003), Num(20003),
      Str(<<"1", "2", ".", "7">>), Str(<<"3">>), Str(<<" ", "1", " ">>),
      Str(<<"x">>), Str(<<>>), Str(<<"i", "n", "f">>), Str(<<"n", "a", "n">>) }

InitKey ==
    /\ kArgs \in [1..2 -> KeyInputs \X KeyInputs]
    /\ kOut = <<>>

IdleKey == kArgs = <<>> /\ kOut = <<>>

\* one call parse_yishuv_sta(semel, stat_area)
DeriveKey ==
    /\ Len(kOut) < Len(kArgs)
    /\ kOut' = Append(kOut, parse_yishuv_sta(kArgs[Len(kOut) + 1][1], kArgs[Len(kOut) + 1][2]))
    /\ UNCHANGED <<kArgs, matchVars, serverVars, pipeVars>>

----------------------------------------------------------------------------
(* The registry, in its declared order (a dict iterates in insertion       *)
(* order), with the native names as the source file holds them.            *)

SOVIET_COUNTRIES ==
    << [key |-> "russia",       he |-> <<"u4e13", "u4f4f">>],
       [key |-> "ukraine",      he |-> <<"u62fd", "u4e13">>],
       [key |-> "ussr",         he |-> <<"u4e13", "\"", " ", "(", "u7816", "u6ce8", "u4e13", ")">>],
       [key |-> "belarus",      he |-> <<"u4e13", "u4f4f">>],
       [key |-> "moldova",      he |-> <<>>],
       [key |-> "uzbekistan",   he |-> <<"u62fd", "u4f4f">>],
       [key |-> "azerbaijan",   he |-> <<"u4e13", "'">>],
       [key |-> "georgia",      he |-> <<"u4e13">>],
       [key |-> "kazakhstan",   he |-> <<"u62fd", "u4f4f">>],
       [key |-> "lithuania",    he |-> <<>>],
       [key |-> "latvia",       he |-> <<>>],
       [key |-> "estonia",      he |-> <<"u4f4f">>],
       [key |-> "tajikistan",   he |-> <<"'", "u62fd", "u4f4f">>],
       [key |-> "turkmenistan", he |-> <<"u4e13", "u62fd", "u4f4f">>],
       [key |-> "kyrgyzstan",   he |-> <<"u62fd", "u4e13", "u4f4f">>],
       [key |-> "armenia",      he |-> <<"u4e13">>] >>

Countries == {SOVIET_COUNTRIES[i].key : i \in 1..Len(SOVIET_COUNTRIES)}

\* Python's None as a country key
NoCountry == "None"

\* info["he"] in country_name or country_name in info["he"]
NameMatches(info, country_name) ==
    Contains(country_name, info.he) \/ Contains(info.he, country_name)

match_soviet_country(country_name) ==
    IF ~Truthy(country_name) THEN NoCountry
    ELSE LET name == Strip(PyStr(country_name))
             hits == {i \in 1..Len(SOVIET_COUNTRIES) : NameMatches(SOVIET_COUNTRIES[i], name)}
         IN  IF hits = {} THEN NoCountry
             ELSE SOVIET_COUNTRIES[CHOOSE i \in hits : \A j \in hits : i <= j].key

MaxNameLen == 3

MatchChars == {" ", "u4e13", "u4f4f", "x"}

RECURSIVE TextsUpTo(_, _)
\* every text of at most n characters of chars
TextsUpTo(chars, n) ==
    IF n = 0 THEN {<<>>}
    ELSE LET shorter == TextsUpTo(chars, n - 1)
         IN  shorter \cup {Append(t, c) : t \in shorter, c \in chars}

Pending == "pending"

InitMatch ==
    /\ mIn \in {NoneV} \cup {Str(t) : t \in TextsUpTo(MatchChars, MaxNameLen)}
    /\ mOut = Pending

IdleMatch == mIn = NoneV /\ mOut = Pending

\* one call match_soviet_country(country_name)
MatchCountry ==
    /\ mOut = Pending
    /\ mOut' = match_soviet_country(mIn)
    /\ UNCHANGED <<mIn, keyVars, serverVars, pipeVars>>

----------------------------------------------------------------------------
(* Claims about the key deriver *)

IsFinite(v) == PyFloat(v).err = "" /\ PyFloat(v).kind = "fin"

\* key is the decimal integer s directly followed by a zero-padded to at least 4 digits
IsKeyOf(key, s, a) ==
    \E n \in 1..(Len(key) - 4) :
        LET p == SubSeq(key, 1, n)
            q == SubSeq(key, n + 1, Len(key))
        IN  /\ IsDigits(p) /\ (Len(p) = 1 \/ p[1] # "0") /\ ToNat(p) = s
            /\ IsDigits(q) /\ (Len(q) = 4 \/ q[1] # "0") /\ ToNat(q) = a

KeyCallAsClaimed(args, out) ==
    IF IsFinite(args[1]) /\ IsFinite(args[2])
    THEN /\ out.raised = ""
         /\ out.key.kind = "str"
         /\ IsKeyOf(out.key.text, IntOfFloat(args[1]).val, IntOfFloat(args[2]).val)
         /\ (args = <<Num(12), Num(3)>> => out.key.text = <<"1", "2", "0", "0", "0", "3">>)
         /\ (args = <<Num(12), Num(45)>> => out.key.text = <<"1", "2", "0", "0", "4", "5">>)
    ELSE out = Returned(NoneV)

\* C5: every call of the key deriver on two numbers returns the decimal
\* settlement code followed by the stat-area code zero-padded to at least 4
\* digits, and every other call returns None without raising.
C5_KeyFormatOrNone ==
    \A i \in 1..Len(kOut) : KeyCallAsClaimed(kArgs[i], kOut[i])

IsIntCode(v) ==
    \/ v.kind = "int"
    \/ v.kind = "str" /\ Strip(v.text) # <<>> /\ IsDigits(Strip(v.text))

CodePair(args) == <<IntOfFloat(args[1]).val, IntOfFloat(args[2]).val>>

BothDerived ==
    /\ Len(kOut) = 2
    /\ \A i \in 1..2 : IsIntCode(kArgs[i][1]) /\ IsIntCode(kArgs[i][2]) /\ kOut[i].key.kind = "str"

FourDigitStat(args) == CodePair(args)[2] \in 0..9999

----------------------------------------------------------------------------
(* Claims about the country matcher *)

FirstContaining(name) ==
    LET hits == {i \in 1..Len(SOVIET_COUNTRIES) :
                    \/ Contains(SOVIET_COUNTRIES[i].he, name)
                    \/ Contains(name, SOVIET_COUNTRIES[i].he)}
    IN  IF hits = {} THEN NoCountry
        ELSE SOVIET_COUNTRIES[CHOOSE i \in hits : \A j \in hits : i <= j].key

\* C7: the matcher returns None for an absent input and for one that is empty
\* after trimming, and otherwise the first registry entry whose native name
\* contains the trimmed input or is contained in it (None if there is none).
C7_MatchTrimmed ==
    mOut # Pending =>
        mOut = IF mIn.kind = "none" \/ Strip(mIn.text) = <<>>
               THEN NoCountry
               ELSE FirstContaining(Strip(mIn.text))


----------------------------------------------------------------------------
(* server.py.  A request is [kind, file_size, range]: kind says whether the *)
(* translated path is a directory, a missing path or a file; range is the   *)
(* Range header (NoneV when the request has none), a text over the tokens   *)
(* below, the literal "bytes=" being one token.                             *)

MaxFileSize == 4
MaxHeaderLen == 5

RangeTokens == {"bytes=", "0", "3", "-"}

Requests ==
    {[kind |-> k, file_size |-> 0, range |-> NoneV] : k \in {"dir", "missing"}}
    \cup {[kind |-> "file", file_size |-> n, range |-> h] :
            n \in 0..MaxFileSize,
            h \in {NoneV} \cup {Str(t) : t \in TextsUpTo(RangeTokens, MaxHeaderLen)}}

NoResponse == [status |-> 0, content_length |-> 0, content_range |-> <<>>,
               accept_ranges |-> FALSE, allow_origin |-> FALSE]
NoBody == [kind |-> "none", remaining |-> 0, pos |-> 0]

InitServer ==
    /\ req \in Requests
    /\ resp = NoResponse
    /\ body = NoBody
    /\ yielded = 0
    /\ drained = FALSE

IdleServer ==
    /\ req = [kind |-> "missing", file_size |-> 0, range |-> NoneV]
    /\ resp = NoResponse
    /\ body = NoBody
    /\ yielded = 0
    /\ drained = FALSE

\* s.replace("bytes=", "")
RemoveUnit(s) == SelectSeq(s, LAMBDA c : c # "bytes=")

Dashes(s) == {i \in 1..Len(s) : s[i] = "-"}

\* int(s) of a non-empty str: [err, val]
PyInt(s) == IF s # <<>> /\ IsDigits(s) THEN [err |-> "", val |-> ToNat(s)]
            ELSE [err |-> "ValueError", val |-> 0]

\* lines 23-28: [err, start, end, length]
ParseRange(range_header, file_size) ==
    LET range_spec == RemoveUnit(range_header)
        d          == Dashes(range_spec)
    IN  IF Cardinality(d) # 1
        THEN [err |-> "ValueError", start |-> 0, end |-> 0, length |-> 0]
        ELSE LET at    == CHOOSE i \in d : TRUE
                 s     == SubSeq(range_spec, 1, at - 1)
                 e     == SubSeq(range_spec, at + 1, Len(range_spec))
                 start == IF s # <<>> THEN PyInt(s) ELSE [err |-> "", val |-> 0]
                 end0  == IF e # <<>> THEN PyInt(e) ELSE [err |-> "", val |-> file_size - 1]
                 end   == Min(end0.val, file_size - 1)
             IN  IF start.err # "" \/ end0.err # ""
                 THEN [err |-> "ValueError", start |-> 0, end |-> 0, length |-> 0]
                 ELSE [err |-> "", start |-> start.val, end |-> end,
                       length |-> end - start.val + 1]

\* lines 46-53
NormalResponse(r) ==
    [resp |-> [status |-> 200, content_length |-> r.file_size, content_range |-> <<>>,
               accept_ranges |-> TRUE, allow_origin |-> TRUE],
     body |-> [kind |-> "file", remaining |-> 0, pos |-> 0]]

\* lines 30-42
RangeResponse(r, p) ==
    [resp |-> [status |-> 206, content_length |-> p.length,
               content_range |-> <<p.start, p.end, r.file_size>>,
               accept_ranges |-> TRUE, allow_origin |-> TRUE],
     body |-> [kind |-> "range", remaining |-> p.length, pos |-> p.start]]

\* RangeHTTPRequestHandler.send_head on a file
send_head(r) ==
    IF Truthy(r.range)
    THEN LET p == ParseRange(r.range.text, r.file_size)
         IN  IF p.err = "" THEN RangeResponse(r, p) ELSE NormalResponse(r)
    ELSE NormalResponse(r)

SendHeadFile ==
    /\ resp.status = 0
    /\ req.kind = "file"
    /\ resp' = send_head(req).resp
    /\ body' = send_head(req).body
    /\ UNCHANGED <<req, yielded, drained, keyVars, matchVars, pipeVars>>

\* a missing path: send_error(404), no body
SendHeadMissing ==
    /\ resp.status = 0
    /\ req.kind = "missing"
    /\ resp' = [NoResponse EXCEPT !.status = 404]
    /\ UNCHANGED <<req, body, yielded, drained, keyVars, matchVars, pipeVars>>

\* a directory is left to SimpleHTTPRequestHandler.send_head: a redirect, the
\* index file or a listing
SendHeadDir ==
    /\ resp.status = 0
    /\ req.kind = "dir"
    /\ \E s \in {200, 301, 404} : resp' = [NoResponse EXCEPT !.status = s]
    /\ UNCHANGED <<req, body, yielded, drained, keyVars, matchVars, pipeVars>>

\* f.read(size) of a binary file at pos: [raised, n] with n the number of
\* bytes returned; -1 reads all the rest and a size below -1 raises ValueError
FileRead(size, pos, file_size) ==
    LET rest == Max(0, file_size - pos)
    IN  CASE size < -1 -> [raised |-> "ValueError", n |-> 0]
          [] size = -1 -> [raised |-> "", n |-> rest]
          [] OTHER     -> [raised |-> "", n |-> Min(size, rest)]

\* _RangeFile.read(size): [raised, n, remaining]
RangeFileRead(b, size, file_size) ==
    LET size1 == IF size < 0 THEN b.remaining ELSE size
        size2 == Min(size1, b.remaining)
        r     == FileRead(size2, b.pos, file_size)
    IN  [raised |-> r.raised, n |-> r.n, remaining |-> b.remaining - size2]

ReadSizes == {-1, 0, 1, 2}

\* one read(size) of the returned body object, as copyfile does until a read
\* returns nothing; a read that raises ends the handler
ReadBody ==
    /\ body.kind \in {"range", "file"}
    /\ ~drained
    /\ \E size \in ReadSizes :
         LET r == IF body.kind = "range"
                  THEN RangeFileRead(body, size, req.file_size)
                  ELSE [raised |-> FileRead(size, body.pos, req.file_size).raised,
                        n |-> FileRead(size, body.pos, req.file_size).n,
                        remaining |-> 0]
         IN  /\ body' = [kind |-> IF r.raised # "" THEN "raised" ELSE body.kind,
                         pos |-> body.pos + r.n, remaining |-> r.remaining]
             /\ yielded' = yielded + r.n
             /\ drained' = (r.raised = "" /\ size # 0 /\ (size < 0 \/ r.n = 0))
    /\ UNCHANGED <<req, resp, keyVars, matchVars, pipeVars>>

NextServer == SendHeadFile \/ SendHeadMissing \/ SendHeadDir \/ ReadBody

----------------------------------------------------------------------------
(* main.py: the statistics entries.  An entry maps metric names to          *)
(* percentages in thousandths.                                              *)

MetricName(c, suffix) == c \o "_" \o suffix

\* init_entry() without its second statement
init_entry_origin_only ==
    [f \in {MetricName(c, "origin_pct") : c \in Countries} |-> 0]

\* init_entry()
init_entry ==
    [f \in {MetricName(c, "origin_pct") : c \in Countries}
           \cup {MetricName(c, "birth_pct") : c \in Countries} |-> 0]

\* d.get(k, default)
Get(d, k, default) == IF k \in DOMAIN d THEN d[k] ELSE default

\* d[k] = v
Put(d, k, v) == [x \in DOMAIN d \cup {k} |-> IF x = k THEN v ELSE d[x]]

\* d.update(e)
Update(d, e) == [x \in DOMAIN d \cup DOMAIN e |-> IF x \in DOMAIN e THEN e[x] ELSE d[x]]

\* a finite float with at most three decimals, in thousandths
Milli(f) ==
    LET m == f.ip * 1000 + ToNat(SubSeq(f.frac \o <<"0", "0", "0">>, 1, 3))
    IN  IF f.neg THEN -m ELSE m

NoPair == [key |-> "None", val |-> 0]

\* extract_country_pct(row, country_col, pct_col, suffix); the columns count from 0
extract_country_pct(row, country_col, pct_col, suffix) ==
    IF country_col >= Len(row) \/ pct_col >= Len(row) THEN NoPair
    ELSE LET country_name == row[country_col + 1]
             pct          == row[pct_col + 1]
             country_key  == match_soviet_country(country_name)
         IN  IF country_key # NoCountry /\ pct.kind # "none" /\ PyFloat(pct).err = ""
             THEN [key |-> MetricName(country_key, suffix), val |-> Milli(PyFloat(pct))]
             ELSE NoPair

OriginPairs == 4
BirthPairs == 3
OriginCol == 61
BirthCol == 69

RECURSIVE ExtractLoop(_, _, _, _, _, _)
\* for i in range(count): key, val = extract_country_pct(...); if key: entry[key] = val
ExtractLoop(entry, row, i, count, first_col, suffix) ==
    IF i >= count THEN entry
    ELSE LET r == extract_country_pct(row, first_col + i * 2, first_col + 1 + i * 2, suffix)
         IN  ExtractLoop(IF r.key # "None" THEN Put(entry, r.key, r.val) ELSE entry,
                         row, i + 1, count, first_col, suffix)

RECURSIVE SumFrom(_, _, _)
SumFrom(entry, suffix, i) ==
    IF i > Len(SOVIET_COUNTRIES) THEN 0
    ELSE Get(entry, MetricName(SOVIET_COUNTRIES[i].key, suffix), 0) + SumFrom(entry, suffix, i + 1)

\* the sum without the first registry entry
SumOverRest(entry, suffix) == SumFrom(entry, suffix, 2)

\* sum(entry.get(f"{c}_{suffix}", 0) for c in SOVIET_COUNTRIES)
SumOver(entry, suffix) == SumFrom(entry, suffix, 1)

NoEntry == [f \in {} |-> 0]

\* process_row(row): [raised, key, entry]; key is NoneV when the row is dropped
process_row(row) ==
    IF Len(row) < 3 THEN [raised |-> "IndexError", key |-> NoneV, entry |-> NoEntry]
    ELSE LET yishuv_sta == parse_yishuv_sta(row[2], row[3])
         IN  IF yishuv_sta.raised # ""
             THEN [raised |-> yishuv_sta.raised, key |-> NoneV, entry |-> NoEntry]
             ELSE IF ~Truthy(yishuv_sta.key)
             THEN [raised |-> "", key |-> NoneV, entry |-> NoEntry]
             ELSE LET e1 == ExtractLoop(init_entry, row, 0, OriginPairs, OriginCol, "origin_pct")
                      e2 == ExtractLoop(e1, row, 0, BirthPairs, BirthCol, "birth_pct")
                      e3 == Put(e2, "soviet_origin_pct", SumOver(e2, "origin_pct"))
                      e4 == Put(e3, "soviet_birth_pct", SumOver(e3, "birth_pct"))
                  IN  [raised |-> "", key |-> yishuv_sta.key, entry |-> e4]

\* country_data.setdefault(yishuv_sta, entry): the first record of a key stays
StoreFirst(data, yishuv_sta, entry) ==
    IF yishuv_sta \in DOMAIN data THEN data ELSE Put(data, yishuv_sta, entry)

\* country_data[yishuv_sta] = entry
StoreEntry(data, yishuv_sta, entry) == Put(data, yishuv_sta, entry)

----------------------------------------------------------------------------
(* The census tables that are read.  A table has one width for all its      *)
(* rows; a row holds the two code cells at columns 1 and 2 and seven        *)
(* (country, percentage) pairs at columns 61 to 74, None elsewhere.         *)

MaxWidth == 75

Widths == {2, 3, 63, MaxWidth}

Russia  == Str(<<"u4e13", "u4f4f">>)
RussiaPadded == Str(<<" ", "u4e13", "u4f4f", " ">>)
Ukraine == Str(<<"u62fd", "u4e13">>)
Pct1500 == Str(<<"1", ".", "5">>)
Pct2000 == Str(<<"2">>)
Pct4    == Str(<<"0", ".", "0", "0", "4">>)
PctBad  == Str(<<"x">>)

\* the cells of columns 61 to 74
PairCells ==
    { [i \in 1..14 |-> NoneV],
      <<Russia, Pct1500, Ukraine, Pct4, NoneV, NoneV, NoneV, NoneV,
        Russia, Pct2000, NoneV, NoneV, NoneV, NoneV>>,
      <<Russia, Pct1500, Russia, Pct2000, Ukraine, PctBad, Ukraine, Pct4,
        NoneV, NoneV, NoneV, NoneV, Ukraine, Pct1500>>,
      <<RussiaPadded, Pct2000, NoneV, NoneV, NoneV, NoneV, Ukraine, NoneV,
        NoneV, Pct2000, NoneV, NoneV, NoneV, NoneV>>,
      <<Ukraine, Pct4, NoneV, NoneV, NoneV, NoneV, NoneV, NoneV,
        NoneV, NoneV, NoneV, NoneV, NoneV, NoneV>> }

\* the cells of columns 1 and 2
CodeCells ==
    { <<Str(<<"1">>), Str(<<"1">>)>>,
      <<Str(<<"1">>), Str(<<"2">>)>>,
      <<NoneV, Str(<<"1">>)>>,
      <<Str(<<"i", "n", "f">>), Str(<<"1">>)>> }

Row(w, codes, pairs) ==
    SubSeq([i \in 1..MaxWidth |->
               CASE i = 2 -> codes[1]
                 [] i = 3 -> codes[2]
                 [] i >= 62 /\ i <= 75 -> pairs[i - 61]
                 [] OTHER -> NoneV],
           1, w)

Rows(w) == {Row(w, codes, pairs) : codes \in CodeCells, pairs \in PairCells}

NoError == [stage |-> "", exc |-> ""]

NoDocument == [loaded |-> FALSE, features |-> <<>>]
NoTopAreas == [m \in {} |-> <<>>]

InitPipe ==
    /\ pc = "start"
    /\ error = NoError
    /\ width = 0
    /\ anyRow = FALSE
    /\ country_data = [k \in {} |-> NoEntry]
    /\ lastRow = [k \in {} |-> <<>>]
    /\ replaced = {}
    /\ geojson = NoDocument
    /\ matched = 0
    /\ top_areas = NoTopAreas
    /\ geoFile = "original"
    /\ topFile = "original"

Fail(stage, exc) ==
    /\ pc' = "failed"
    /\ error' = [stage |-> stage, exc |-> exc]

\* pl.read_csv(CENSUS_PATH, has_header=False, infer_schema=False)
ReadCensus ==
    /\ pc = "start"
    /\ \/ /\ width' \in Widths
          /\ pc' = "rows"
          /\ UNCHANGED error
       \/ /\ Fail("read_csv", "FileNotFoundError")
          /\ UNCHANGED width
    /\ UNCHANGED <<anyRow, country_data, lastRow, replaced, geojson, matched, top_areas,
                   geoFile, topFile, keyVars, matchVars, serverVars>>

\* one turn of the loop of load_census_data
LoadRow ==
    /\ pc = "rows"
    /\ \E row \in Rows(width) : \E r \in {process_row(row)} :
         IF r.raised # ""
         THEN /\ Fail("process_row", r.raised)
              /\ UNCHANGED <<country_data, lastRow, replaced>>
         ELSE IF r.key = NoneV
         THEN UNCHANGED <<pc, error, country_data, lastRow, replaced>>
         ELSE /\ country_data' = StoreEntry(country_data, r.key.text, r.entry)
              /\ lastRow' = Put(lastRow, r.key.text, row)
              /\ replaced' = IF r.key.text \in DOMAIN country_data
                                /\ country_data[r.key.text] # r.entry
                             THEN replaced \cup {r.key.text} ELSE replaced
              /\ UNCHANGED <<pc, error>>
    /\ anyRow' = TRUE
    /\ UNCHANGED <<width, geojson, matched, top_areas, geoFile, topFile,
                   keyVars, matchVars, serverVars>>

\* the loop ends: return country_data (read_csv refuses a table without rows)
LoadDone ==
    /\ pc = "rows"
    /\ anyRow
    /\ pc' = "merge"
    /\ UNCHANGED <<error, width, anyRow, country_data, lastRow, replaced, geojson, matched,
                   top_areas, geoFile, topFile, keyVars, matchVars, serverVars>>


----------------------------------------------------------------------------
(* The geographic document.  A feature is [has_props, properties,           *)
(* geometry]: has_props is FALSE for "properties": null; geometry is        *)
(* [type, outer] with outer the one ring get_centroid reads                 *)
(* (coordinates[0] of a Polygon, coordinates[0][0] of a MultiPolygon), its  *)
(* points in millionths, and type "null" for "geometry": null.              *)

Text10001 == <<"1", "0", "0", "0", "1">>
Text10002 == <<"1", "0", "0", "0", "2">>

Square == [type |-> "Polygon",
           outer |-> << <<0, 0>>, <<2000000, 0>>, <<2000000, 2000000>>, <<0, 2000000>> >>]
Triangle == [type |-> "MultiPolygon",
             outer |-> << <<0, 0>>, <<1000000, 0>>, <<0, 1000000>> >>]
EmptyRing == [type |-> "Polygon", outer |-> <<>>]
PointGeometry == [type |-> "Point", outer |-> <<>>]
NullGeometry == [type |-> "null", outer |-> <<>>]

Props(d, g) == [has_props |-> TRUE, properties |-> d, geometry |-> g]

FeatureKinds ==
    << Props([k \in {"YISHUV_STA", "SHEM_YIS_1"} |->
                 IF k = "YISHUV_STA" THEN Str(Text10001) ELSE Str(<<"A">>)], Square),
       Props([k \in {"YISHUV_STA", "SHEM_YISHU"} |->
                 IF k = "YISHUV_STA" THEN Num(10002) ELSE Str(<<"B">>)], Triangle),
       Props([k \in {} |-> NoneV], PointGeometry),
       Props([k \in {"YISHUV_STA", "SHEM_YIS_1", "SHEM_YISHU"} |->
                 CASE k = "YISHUV_STA" -> Str(Text10001)
                   [] k = "SHEM_YIS_1" -> Str(<<>>)
                   [] OTHER -> Str(<<"C">>)], NullGeometry),
       [has_props |-> FALSE, properties |-> [k \in {} |-> NoneV], geometry |-> Square],
       Props([k \in {"YISHUV_STA", "soviet_origin_pct"} |->
                 IF k = "YISHUV_STA" THEN Str(Text10002) ELSE 99000], EmptyRing) >>

MaxFeatures == 22

FeatureCounts == {0, 1, 2, 3, MaxFeatures}

\* the kinds the features of a document cycle through
Patterns == { <<1>>, <<1, 2>>, <<2, 1>>, <<3, 1, 6>>, <<1, 4>>, <<2, 5>>, <<6, 2, 3>> }

Collection(n, pat) == [i \in 1..n |-> FeatureKinds[pat[((i - 1) % Len(pat)) + 1]]]

FeatureCollections == {Collection(n, pat) : n \in FeatureCounts, pat \in Patterns}

\* the body of the loop of update_geojson on one feature
MergeFeature(feature, data) ==
    LET props      == feature.properties
        yishuv_sta == PyStr(Get(props, "YISHUV_STA", Str(<<>>)))
    IN  IF yishuv_sta \in DOMAIN data
        THEN [feature EXCEPT !.properties = Update(props, data[yishuv_sta])]
        ELSE [feature EXCEPT !.properties =
                 Put(Put(Update(props, init_entry), "soviet_origin_pct", 0),
                     "soviet_birth_pct", 0)]

IsMatched(feature, data) ==
    PyStr(Get(feature.properties, "YISHUV_STA", Str(<<>>))) \in DOMAIN data

\* lines 133-144: [raised, features, matched]
MergePass(features, data) ==
    IF \E i \in 1..Len(features) : ~features[i].has_props
    THEN [raised |-> "AttributeError", features |-> <<>>, matched |-> 0]
    ELSE [raised |-> "",
          features |-> [i \in 1..Len(features) |-> MergeFeature(features[i], data)],
          matched |-> Cardinality({i \in 1..Len(features) : IsMatched(features[i], data)})]

\* What a destination file holds: its content from before the run, nothing
\* (opened with "w"), a proper prefix of the serialization, or all of it.
\* open("w") truncates the file and json.dump writes it piece by piece; an
\* OSError can end the write at any point.
WriteOutcomes == {"original", "truncated", "partial", "complete"}

\* update_geojson(country_data)
UpdateGeojson ==
    /\ pc = "merge"
    /\ \/ /\ Fail("json.load", "JSONDecodeError")
          /\ UNCHANGED <<geojson, matched, geoFile>>
       \/ \E doc \in FeatureCollections : \E m \in {MergePass(doc, country_data)} :
            IF m.raised # ""
            THEN /\ Fail("update_geojson", m.raised)
                 /\ UNCHANGED <<geojson, matched, geoFile>>
            ELSE \E w \in WriteOutcomes :
                   /\ geoFile' = w
                   /\ IF w = "complete"
                      THEN /\ geojson' = [loaded |-> TRUE, features |-> m.features]
                           /\ matched' = m.matched
                           /\ pc' = "rank"
                           /\ UNCHANGED error
                      ELSE /\ Fail("json.dump", "OSError")
                           /\ UNCHANGED <<geojson, matched>>
    /\ UNCHANGED <<width, anyRow, country_data, lastRow, replaced, top_areas, topFile,
                   keyVars, matchVars, serverVars>>

----------------------------------------------------------------------------
(* The ranker *)

COLOR_MODES ==
    << "soviet_origin_pct", "soviet_birth_pct",
       "russia_origin_pct", "russia_birth_pct",
       "ussr_origin_pct", "ussr_birth_pct",
       "ukraine_origin_pct", "ukraine_birth_pct",
       "uzbekistan_origin_pct", "uzbekistan_birth_pct",
       "belarus_origin_pct", "belarus_birth_pct",
       "moldova_origin_pct", "moldova_birth_pct" >>

TopN == 20

\* a / n rounded to the nearest integer, halves to the even one
RoundDiv(a, n) ==
    LET m == IF a < 0 THEN -a ELSE a
        q == m \div n
        r == m % n
        u == IF 2 * r < n \/ (2 * r = n /\ q % 2 = 0) THEN q ELSE q + 1
    IN  IF a < 0 THEN -u ELSE u

\* round(value, 2): thousandths to hundredths
Round2(value) == RoundDiv(value, 10)

RECURSIVE SumCoord(_, _)
SumCoord(coords, k) ==
    IF coords = <<>> THEN 0 ELSE Head(coords)[k] + SumCoord(Tail(coords), k)

\* get_centroid(geometry) of a geometry that is not null
get_centroid(geometry) ==
    LET coords == IF geometry.type \in {"Polygon", "MultiPolygon"} THEN geometry.outer ELSE <<>>
    IN  IF coords = <<>> THEN <<0, 0>>
        ELSE <<RoundDiv(SumCoord(coords, 1), Len(coords)),
               RoundDiv(SumCoord(coords, 2), Len(coords))>>

\* props.get("SHEM_YIS_1") or props.get("SHEM_YISHU") or "Unknown"
AreaName(props) ==
    IF Truthy(Get(props, "SHEM_YIS_1", NoneV)) THEN props["SHEM_YIS_1"].text
    ELSE IF Truthy(Get(props, "SHEM_YISHU", NoneV)) THEN props["SHEM_YISHU"].text
    ELSE <<"U", "n", "k", "n", "o", "w", "n">>

\* if value and value > 0
IsRanked(feature, mode) == Get(feature.properties, mode, 0) > 0

RECURSIVE Areas(_, _)
\* lines 170-181: the records of the features kept for mode, in scan order
Areas(features, mode) ==
    IF features = <<>> THEN <<>>
    ELSE LET feature == Head(features)
         IN  (IF IsRanked(feature, mode)
              THEN << [name |-> AreaName(feature.properties),
                       value |-> Round2(feature.properties[mode]),
                       center |-> get_centroid(feature.geometry)] >>
              ELSE <<>>) \o Areas(Tail(features), mode)

RECURSIVE InsertDesc(_, _)
InsertDesc(sorted, x) ==
    IF sorted = <<>> THEN <<x>>
    ELSE IF Head(sorted).value >= x.value
    THEN <<Head(sorted)>> \o InsertDesc(Tail(sorted), x)
    ELSE <<x>> \o sorted

\* no sort: the scan order
Unsorted(areas) == areas

RECURSIVE SortDesc(_)
\* areas.sort(key=lambda x: x["value"], reverse=True): stable, equal values keep their order
SortDesc(areas) ==
    IF areas = <<>> THEN <<>>
    ELSE InsertDesc(SortDesc(SubSeq(areas, 1, Len(areas) - 1)), areas[Len(areas)])

\* areas[:20]
Truncate(areas) == SubSeq(areas, 1, Min(TopN, Len(areas)))

\* compute_top_areas(geojson): [raised, top]; subscripting a null geometry raises
compute_top_areas(features) ==
    IF \E i \in 1..Len(features) : \E j \in 1..Len(COLOR_MODES) :
          IsRanked(features[i], COLOR_MODES[j]) /\ features[i].geometry.type = "null"
    THEN [raised |-> "TypeError", top |-> NoTopAreas]
    ELSE [raised |-> "",
          top |-> [mode \in {COLOR_MODES[j] : j \in 1..Len(COLOR_MODES)} |->
                      Truncate(SortDesc(Areas(features, mode)))]]

\* top_areas = compute_top_areas(geojson)
ComputeTopAreas ==
    /\ pc = "rank"
    /\ \E r \in {compute_top_areas(geojson.features)} :
         IF r.raised # ""
         THEN /\ Fail("compute_top_areas", r.raised)
              /\ UNCHANGED top_areas
         ELSE /\ top_areas' = r.top
              /\ pc' = "save"
              /\ UNCHANGED error
    /\ UNCHANGED <<width, anyRow, country_data, lastRow, replaced, geojson, matched,
                   geoFile, topFile, keyVars, matchVars, serverVars>>

\* with TOP_AREAS_PATH.open("w") as f: json.dump(top_areas, f)
SaveTopAreas ==
    /\ pc = "save"
    /\ \E w \in WriteOutcomes :
         /\ topFile' = w
         /\ IF w = "complete"
            THEN pc' = "stats" /\ UNCHANGED error
            ELSE Fail("json.dump top_areas", "OSError")
    /\ UNCHANGED <<width, anyRow, country_data, lastRow, replaced, geojson, matched,
                   top_areas, geoFile, keyVars, matchVars, serverVars>>

\* print_stats(country_data): console output only
PrintStats ==
    /\ pc = "stats"
    /\ pc' = "done"
    /\ UNCHANGED <<error, width, anyRow, country_data, lastRow, replaced, geojson, matched,
                   top_areas, geoFile, topFile, keyVars, matchVars, serverVars>>

Next ==
    \/ ReadCensus \/ LoadRow \/ LoadDone
    \/ UpdateGeojson \/ ComputeTopAreas \/ SaveTopAreas \/ PrintStats

IdlePipe == InitPipe

----------------------------------------------------------------------------

InitKeyOnly == InitKey /\ IdleMatch /\ IdleServer /\ IdlePipe

SpecKey == InitKeyOnly /\ [][DeriveKey]_vars

InitMatchOnly == InitMatch /\ IdleKey /\ IdleServer /\ IdlePipe

SpecMatch == InitMatchOnly /\ [][MatchCountry]_vars

InitServerOnly == InitServer /\ IdleKey /\ IdleMatch /\ IdlePipe

SpecServer == InitServerOnly /\ [][NextServer]_vars

Init == InitPipe /\ IdleKey /\ IdleMatch /\ IdleServer

Spec == Init /\ [][Next]_vars

----------------------------------------------------------------------------
(* Claims about the pipeline *)

Suffixes == {"origin_pct", "birth_pct"}

AllMetrics ==
    {MetricName(SOVIET_COUNTRIES[i].key, x) : i \in 1..Len(SOVIET_COUNTRIES), x \in Suffixes}
    \cup {"soviet_origin_pct", "soviet_birth_pct"}

\* C1: after the merge pass every feature's properties hold every
\* registry-derived metric and both aggregates, matched or not.
C1_FullFieldSet ==
    geojson.loaded =>
        \A i \in 1..Len(geojson.features) :
            AllMetrics \subseteq DOMAIN geojson.features[i].properties

\* a merged document with a matched and an unmatched feature
C1_Witness ==
    /\ geojson.loaded
    /\ matched >= 1
    /\ matched < Len(geojson.features)
    /\ \A i \in 1..Len(geojson.features) :
          AllMetrics \subseteq DOMAIN geojson.features[i].properties

\* C2: the mapping holds, under each key, exactly the entry derived from the
\* last record that produced that key, and holds no other key.
C2_LastRecordWins ==
    /\ DOMAIN country_data = DOMAIN lastRow
    /\ \A k \in DOMAIN lastRow :
          /\ process_row(lastRow[k]).key.text = k
          /\ country_data[k] = process_row(lastRow[k]).entry

\* a key whose earlier, different entry was replaced by a later record
C2_Witness ==
    /\ Text10001 \in replaced
    /\ country_data[Text10001] = process_row(lastRow[Text10001]).entry
    /\ country_data[Text10001]["russia_origin_pct"] = 0

RECURSIVE SumOfFields(_, _)
SumOfFields(entry, fields) ==
    IF fields = {} THEN 0
    ELSE LET f == CHOOSE x \in fields : TRUE
         IN  entry[f] + SumOfFields(entry, fields \ {f})

Ranked == top_areas # NoTopAreas

PositiveFeatures(mode) ==
    {i \in 1..Len(geojson.features) : geojson.features[i].properties[mode] > 0}

\* C4 as stated: every ranked list is strictly descending by value, has at
\* most 20 entries and no entry with a non-positive value.
C4_StrictlyDescendingPositive ==
    Ranked =>
        \A mode \in DOMAIN top_areas :
            /\ \A i \in 1..(Len(top_areas[mode]) - 1) :
                  top_areas[mode][i].value > top_areas[mode][i + 1].value
            /\ Len(top_areas[mode]) <= 20
            /\ \A i \in 1..Len(top_areas[mode]) : top_areas[mode][i].value > 0

\* C4 amended: every ranked list is descending by value, equal values
\* allowed, has at most 20 entries, and each entry is the record of a feature
\* whose value for the metric is strictly positive; the entry's value, rounded
\* to 2 decimals, is never negative.
C4_DescendingFromPositive ==
    Ranked =>
        \A mode \in DOMAIN top_areas :
            /\ \A i \in 1..(Len(top_areas[mode]) - 1) :
                  top_areas[mode][i].value >= top_areas[mode][i + 1].value
            /\ Len(top_areas[mode]) <= 20
            /\ \A i \in 1..Len(top_areas[mode]) :
                  /\ top_areas[mode][i].value >= 0
                  /\ \E j \in PositiveFeatures(mode) :
                        /\ Round2(geojson.features[j].properties[mode]) = top_areas[mode][i].value
                        /\ AreaName(geojson.features[j].properties) = top_areas[mode][i].name

\* more than 20 features are positive for a metric and its list holds 20
\* records, of two different values
C4_Witness ==
    /\ Ranked
    /\ Cardinality(PositiveFeatures("soviet_origin_pct")) > 20
    /\ Len(top_areas["soviet_origin_pct"]) = 20
    /\ top_areas["soviet_origin_pct"][1].value > top_areas["soviet_origin_pct"][20].value

\* C8: processing a census record never raises.
C8_RowNeverRaises == error.stage # "process_row"

CompleteOrUntouched(file) == file \in {"original", "complete"}

\* C9: a run that aborts leaves each destination file either with its
\* content from before the run or with a complete serialization.
C9_NoPartialOutput ==
    pc = "failed" => CompleteOrUntouched(geoFile) /\ CompleteOrUntouched(topFile)

----------------------------------------------------------------------------
(* Claims about the file server *)

IsRangeHeader(h) ==
    /\ h.kind = "str"
    /\ Len(h.text) >= 4
    /\ h.text[1] = "bytes="
    /\ \E at \in 3..(Len(h.text) - 1) :
         /\ h.text[at] = "-"
         /\ IsDigits(SubSeq(h.text, 2, at - 1))
         /\ IsDigits(SubSeq(h.text, at + 1, Len(h.text)))
         /\ ToNat(SubSeq(h.text, 2, at - 1)) <= ToNat(SubSeq(h.text, at + 1, Len(h.text)))

\* C10: a request on an existing file with Range: bytes=start-end is answered
\* 206 with Accept-Ranges, a Content-Range over the file size and a
\* Content-Length that is the slice length and the number of bytes the body
\* yields; a request with no Range header is answered 200 with the file size.
C10_RangeContract ==
    (req.kind = "file" /\ resp.status # 0) =>
        /\ IsRangeHeader(req.range) =>
             /\ resp.status = 206
             /\ resp.accept_ranges
             /\ resp.content_range[3] = req.file_size
             /\ resp.content_length = resp.content_range[2] - resp.content_range[1] + 1
             /\ resp.content_length >= 0
             /\ yielded <= resp.content_length
             /\ drained => yielded = resp.content_length
        /\ req.range = NoneV =>
             /\ resp.status = 200
             /\ resp.content_length = req.file_size
             /\ drained => yielded = req.file_size

============================================================================
